---- MODULE Spec2Model ----
(***************************************************************************)
(* Model of the Lua front end: the Lexer of src/src/lexer.rs and the       *)
(* recursive descent Parser of src/src/parser.rs.                           *)
(*                                                                         *)
(* A source text is a sequence of characters; a character is a one-letter  *)
(* string, except the two-byte character written "U+00E9".  Rust indexes   *)
(* the tape both by character (chars().nth) and by byte (len, slicing);    *)
(* the model keeps the two apart.                                          *)
(***************************************************************************)
EXTENDS Integers, Sequences, FiniteSets, TLC

VARIABLES
    lexer,      \* the Lexer struct: tape, cursor, line, column, errored
    tokens,     \* the local `tokens` vector of Lexer::tokenize
    lexPc,      \* position of tokenize: "scan", "done" or "panic"
    lexResult,  \* the Option<Tokens> returned by tokenize
    lexLog,     \* the diagnostics printed by log_error! in the lexer
    parser,     \* the Parser struct: tokens, cursor, errored (+ printed diagnostics)
    statements, \* the local `statements` vector of the outermost Parser::chunk
    last,       \* the local `last_statement` of the outermost Parser::chunk
    parsePc,    \* position of parse: "stat", "laststat", "chunked", "done", "overflow"
    tree        \* the MaybeASTNode returned by parse

lexVars == <<lexer, tokens, lexPc, lexResult, lexLog>>
parseVars == <<parser, statements, last, parsePc, tree>>
vars == <<lexer, tokens, lexPc, lexResult, lexLog, parser, statements, last, parsePc, tree>>

(***************************************************************************)
(* Bounds                                                                  *)
(***************************************************************************)
MaxTape == 3
MaxTokens == 3

(***************************************************************************)
(* Option                                                                  *)
(***************************************************************************)
None == <<>>
Some(x) == <<x>>

(***************************************************************************)
(* Characters                                                              *)
(***************************************************************************)
NUL == "NUL"
EAcute == "U+00E9"
Digits == {"0", "1", "2", "3", "4", "5", "6", "7", "8", "9"}
LowerLetters == {"a", "b", "c", "d", "e", "f", "g", "h", "i", "j", "k", "l", "m",
                 "n", "o", "p", "q", "r", "s", "t", "u", "v", "w", "x", "y", "z"}
UpperLetters == {"A", "B", "C", "D", "E", "F", "X"}
HexDigits == Digits \cup {"a", "b", "c", "d", "e", "f", "A", "B", "C", "D", "E", "F"}

len_utf8(c) == IF c = EAcute THEN 2 ELSE 1
is_whitespace(c) == c \in {" ", "\t", "\r", "\n"}
is_numeric(c) == c \in Digits
is_alphabetic(c) == c \in LowerLetters \cup UpperLetters \cup {EAcute}
is_alphanumeric(c) == is_alphabetic(c) \/ is_numeric(c)
is_ascii_hexdigit(c) == c \in HexDigits
is_end_of_line(c) == c = "\n"

DigitVal(c) ==
    CASE c = "0" -> 0 [] c = "1" -> 1 [] c = "2" -> 2 [] c = "3" -> 3 [] c = "4" -> 4
      [] c = "5" -> 5 [] c = "6" -> 6 [] c = "7" -> 7 [] c = "8" -> 8 [] c = "9" -> 9
      [] c \in {"a", "A"} -> 10 [] c \in {"b", "B"} -> 11 [] c \in {"c", "C"} -> 12
      [] c \in {"d", "D"} -> 13 [] c \in {"e", "E"} -> 14 [] c \in {"f", "F"} -> 15

(***************************************************************************)
(* Tokens.  s is the payload of STRING and NAME, <<n, e>> the value        *)
(* n * 10^e of NUMBER (n not divisible by 10 unless the value is 0).       *)
(***************************************************************************)
Tok(k) == [k |-> k, s |-> <<>>, n |-> 0, e |-> 0]
Token_NAME(str) == [k |-> "NAME", s |-> str, n |-> 0, e |-> 0]
Token_STRING(str) == [k |-> "STRING", s |-> str, n |-> 0, e |-> 0]
UNDEFINED == Tok("UNDEFINED")

RECURSIVE Canon(_, _)
Canon(m, e) ==
    IF m = 0 THEN <<0, 0>>
    ELSE IF m % 10 = 0 THEN Canon(m \div 10, e + 1)
    ELSE <<m, e>>

Token_NUMBER(m, e) == [k |-> "NUMBER", s |-> <<>>, n |-> Canon(m, e)[1], e |-> Canon(m, e)[2]]

(***************************************************************************)
(* StrExt and f64 / i64 parsing                                            *)
(***************************************************************************)
remove_last(str) == IF Len(str) = 0 THEN str ELSE SubSeq(str, 1, Len(str) - 1)

\* str.replace('_', "")
RECURSIVE replace_underscore(_)
replace_underscore(str) ==
    IF Len(str) = 0 THEN <<>>
    ELSE IF Head(str) = "_" THEN replace_underscore(Tail(str))
    ELSE <<Head(str)>> \o replace_underscore(Tail(str))

AllIn(str, S) == \A i \in 1..Len(str) : str[i] \in S

RECURSIVE ToInt(_, _)
ToInt(str, radix) ==
    IF Len(str) = 0 THEN 0
    ELSE ToInt(remove_last(str), radix) * radix + DigitVal(str[Len(str)])

RECURSIVE Pow10(_)
Pow10(k) == IF k <= 0 THEN 1 ELSE 10 * Pow10(k - 1)

\* index of the first occurrence of c in str, 0 if there is none
IndexOf(str, c) ==
    IF \E i \in 1..Len(str) : str[i] = c
    THEN CHOOSE i \in 1..Len(str) : str[i] = c /\ \A j \in 1..(i - 1) : str[j] # c
    ELSE 0

\* i64::from_str_radix(str, 16): the digits are those is_ascii_hexdigit let through
from_str_radix(str) ==
    IF Len(str) > 0 /\ Len(str) <= 15 /\ AllIn(str, HexDigits)
    THEN [ok |-> TRUE, n |-> ToInt(str, 16)]
    ELSE [ok |-> FALSE, n |-> 0]

\* str.parse::<f64>() on the characters the number branch lets through:
\* [-] digits [. digits] [e [-] digits], with a digit in the mantissa
parse_f64(str) ==
    LET neg   == Len(str) > 0 /\ str[1] = "-"
        body  == IF neg THEN Tail(str) ELSE str
        ePos  == IndexOf(body, "e")
        mant  == IF ePos = 0 THEN body ELSE SubSeq(body, 1, ePos - 1)
        expo  == IF ePos = 0 THEN <<>> ELSE SubSeq(body, ePos + 1, Len(body))
        eNeg  == Len(expo) > 0 /\ expo[1] = "-"
        eDig  == IF eNeg THEN Tail(expo) ELSE expo
        dPos  == IndexOf(mant, ".")
        ipart == IF dPos = 0 THEN mant ELSE SubSeq(mant, 1, dPos - 1)
        fpart == IF dPos = 0 THEN <<>> ELSE SubSeq(mant, dPos + 1, Len(mant))
        okMant == /\ AllIn(ipart, Digits) /\ AllIn(fpart, Digits)
                  /\ Len(ipart) + Len(fpart) > 0
        okExp  == ePos = 0 \/ (Len(eDig) > 0 /\ AllIn(eDig, Digits))
        m     == ToInt(ipart \o fpart, 10)
        x     == (IF eNeg THEN 0 - ToInt(eDig, 10) ELSE ToInt(eDig, 10)) - Len(fpart)
    IN  IF okMant /\ okExp
        THEN [ok |-> TRUE, n |-> IF neg THEN 0 - m ELSE m, e |-> x]
        ELSE [ok |-> FALSE, n |-> 0, e |-> 0]

(***************************************************************************)
(* Lexer                                                                   *)
(***************************************************************************)
Lexer_new(text) ==
    [tape |-> text, cursor |-> -1, line |-> 1, column |-> 0, errored |-> FALSE]

RECURSIVE ByteLen(_)
ByteLen(str) == IF Len(str) = 0 THEN 0 ELSE len_utf8(Head(str)) + ByteLen(Tail(str))

\* byte offset of the character with character index i (0-based)
ByteOffset(str, i) == ByteLen(SubSeq(str, 1, i))

is_char_boundary(str, b) == \E i \in 0..Len(str) : ByteOffset(str, i) = b

is_end_of_file(lx) == lx.cursor >= ByteLen(lx.tape)

is_end_of_file_nth(lx, n) == n < 0 \/ n >= ByteLen(lx.tape)

\* self.tape.chars().nth(i)
chars_nth(lx, i) == IF i >= 0 /\ i < Len(lx.tape) THEN Some(lx.tape[i + 1]) ELSE None

unwrap_or_default(o) == IF o = None THEN NUL ELSE o[1]

\* advance: the unwrap panics when the cursor is below the byte length but
\* not below the number of characters
advance(lx) ==
    LET lx2 == [lx EXCEPT !.cursor = @ + 1, !.column = @ + 1] IN
    IF is_end_of_file(lx2) THEN [lx |-> lx2, c |-> None, panic |-> FALSE]
    ELSE IF chars_nth(lx2, lx2.cursor) = None THEN [lx |-> lx2, c |-> None, panic |-> TRUE]
    ELSE [lx |-> lx2, c |-> chars_nth(lx2, lx2.cursor), panic |-> FALSE]

RECURSIVE advance_nth(_, _)
advance_nth(lx, n) ==
    IF n <= 0 THEN [lx |-> lx, c |-> None, panic |-> FALSE]
    ELSE LET a == advance(lx) IN
         IF a.panic THEN a ELSE advance_nth(a.lx, n - 1)

peek(lx) == chars_nth(lx, lx.cursor + 1)

peek_nth(lx, n) == chars_nth(lx, lx.cursor + n)

\* &self.tape[start..start + size]: panics on an underflowed start, a range
\* past the end, or a bound inside a multi-byte character
sub_tape(lx, start, size) ==
    IF \/ start < 0
       \/ start + size > ByteLen(lx.tape)
       \/ ~is_char_boundary(lx.tape, start)
       \/ ~is_char_boundary(lx.tape, start + size)
    THEN [panic |-> TRUE, str |-> <<>>]
    ELSE LET i == CHOOSE i \in 0..Len(lx.tape) : ByteOffset(lx.tape, i) = start
             j == CHOOSE j \in 0..Len(lx.tape) : ByteOffset(lx.tape, j) = start + size
         IN  [panic |-> FALSE, str |-> SubSeq(lx.tape, i + 1, j)]

\* the closures handed to while_peek as p, by the place that passes them
p_closure(pk, lx, c, n) ==
    CASE pk = "end_of_line" -> [panic |-> FALSE, v |-> is_end_of_line(c)]
      [] pk = "close_long" ->
            [panic |-> FALSE,
             v |-> c = "]" /\ unwrap_or_default(peek_nth(lx, n + 1)) = "]"]
      [] pk = "short_string" ->
            LET st == sub_tape(lx, (lx.cursor + n) - 2, 3) IN
            [panic |-> st.panic,
             v |-> st.str # <<"\\", "\r", "\n">> /\ is_end_of_line(c)]

\* the closures handed to while_peek as f
f_closure(fk, c) ==
    CASE fk = "any" -> TRUE
      [] fk = "not_quote" -> ~(c = "\"" \/ c = "'")
      [] fk = "hex" -> is_ascii_hexdigit(c)
      [] fk = "number" -> is_numeric(c) \/ c = "e" \/ c = "." \/ c = "-" \/ c = "_"
      [] fk = "identifier" -> is_alphanumeric(c)

RECURSIVE while_peek_loop(_, _, _, _, _)
while_peek_loop(lx, pk, fk, current_peek, stack) ==
    LET o == peek_nth(lx, current_peek) IN
    IF o = None THEN [n |-> current_peek, str |-> stack, panic |-> FALSE]
    ELSE LET stack2 == Append(stack, o[1])
             p == p_closure(pk, lx, o[1], current_peek)
         IN  IF p.panic THEN [n |-> current_peek, str |-> stack2, panic |-> TRUE]
             ELSE IF p.v THEN [n |-> current_peek, str |-> stack2, panic |-> FALSE]
             ELSE IF ~f_closure(fk, o[1])
                  THEN [n |-> current_peek, str |-> stack2, panic |-> FALSE]
             ELSE while_peek_loop(lx, pk, fk, current_peek + 1, stack2)

while_peek(lx, pk, fk) == while_peek_loop(lx, pk, fk, 1, <<>>)

keywords ==
    {<<<<"a", "n", "d">>, "AND">>, <<<<"o", "r">>, "OR">>,
     <<<<"w", "h", "i", "l", "e">>, "WHILE">>, <<<<"f", "o", "r">>, "FOR">>,
     <<<<"r", "e", "p", "e", "a", "t">>, "REPEAT">>,
     <<<<"r", "e", "t", "u", "r", "n">>, "RETURN">>,
     <<<<"t", "h", "e", "n">>, "THEN">>, <<<<"t", "r", "u", "e">>, "TRUE">>,
     <<<<"u", "n", "t", "i", "l">>, "UNTIL">>,
     <<<<"f", "u", "n", "c", "t", "i", "o", "n">>, "FUNCTION">>,
     <<<<"i", "f">>, "IF">>, <<<<"i", "n">>, "IN">>,
     <<<<"l", "o", "c", "a", "l">>, "LOCAL">>, <<<<"n", "i", "l">>, "NIL">>,
     <<<<"e", "n", "d">>, "END">>, <<<<"b", "r", "e", "a", "k">>, "BREAK">>,
     <<<<"d", "o">>, "DO">>, <<<<"e", "l", "s", "e">>, "ELSE">>,
     <<<<"e", "l", "s", "e", "i", "f">>, "ELSEIF">>,
     <<<<"f", "a", "l", "s", "e">>, "FALSE">>, <<<<"n", "o", "t">>, "NOT">>}

keywords_get(str) ==
    IF \E kw \in keywords : kw[1] = str
    THEN Some(Tok((CHOOSE kw \in keywords : kw[1] = str)[2]))
    ELSE None

\* the final `match c` of tokenize: the token and whether a second character is skipped
symbol(lx, c) ==
    LET eq == unwrap_or_default(peek(lx)) = "=" IN
    CASE c = "+" -> [tok |-> Tok("ADD"), skip_char |-> FALSE]
      [] c = "-" -> [tok |-> Tok("SUBTRACT"), skip_char |-> FALSE]
      [] c = "*" -> [tok |-> Tok("MULTIPLY"), skip_char |-> FALSE]
      [] c = "/" -> [tok |-> Tok("DIVIDE"), skip_char |-> FALSE]
      [] c = "(" -> [tok |-> Tok("LEFT_PAREN"), skip_char |-> FALSE]
      [] c = ")" -> [tok |-> Tok("RIGHT_PAREN"), skip_char |-> FALSE]
      [] c = "^" -> [tok |-> Tok("XOR"), skip_char |-> FALSE]
      [] c = "." -> [tok |-> Tok("DOT"), skip_char |-> FALSE]
      [] c = "," -> [tok |-> Tok("COMMA"), skip_char |-> FALSE]
      [] c = "#" -> [tok |-> Tok("HASHTAG"), skip_char |-> FALSE]
      [] c = ";" -> [tok |-> Tok("SEMICOLON"), skip_char |-> FALSE]
      [] c = ":" -> [tok |-> Tok("COLON"), skip_char |-> FALSE]
      [] c = "]" -> [tok |-> Tok("RIGHT_BRACKET"), skip_char |-> FALSE]
      [] c = "[" -> [tok |-> Tok("LEFT_BRACKET"), skip_char |-> FALSE]
      [] c = "{" -> [tok |-> Tok("LEFT_BRACE"), skip_char |-> FALSE]
      [] c = "}" -> [tok |-> Tok("RIGHT_BRACE"), skip_char |-> FALSE]
      [] c = "%" -> [tok |-> Tok("MODULO"), skip_char |-> FALSE]
      [] c = "<" -> [tok |-> IF eq THEN Tok("LESS_EQUAL") ELSE Tok("LESS_THAN"),
                     skip_char |-> eq]
      [] c = ">" -> [tok |-> IF eq THEN Tok("GREATER_EQUAL") ELSE Tok("GREATER_THAN"),
                     skip_char |-> eq]
      [] c = "~" -> [tok |-> IF eq THEN Tok("NEQ") ELSE UNDEFINED, skip_char |-> eq]
      [] c = "=" -> [tok |-> IF eq THEN Tok("EQ") ELSE Tok("ASSIGN"), skip_char |-> eq]
      [] OTHER -> [tok |-> UNDEFINED, skip_char |-> FALSE]

(***************************************************************************)
(* Lexer::tokenize, one action per branch of the scanning loop.  Every     *)
(* action starts with the advance() of the loop head.                      *)
(***************************************************************************)
Diag(msg, lx) == [msg |-> msg, column |-> lx.column, line |-> lx.line]

\* the text read by the number branch: remove_last, then underscores removed
number_string(lx) == replace_underscore(remove_last(while_peek(lx, "end_of_line", "number").str))

\* which branch of the loop body handles the character c at the cursor
branch(lx, c) ==
    LET pk(n) == unwrap_or_default(peek_nth(lx, n)) IN
    IF is_whitespace(c) /\ ~is_end_of_line(c) THEN "whitespace"
    ELSE IF is_end_of_line(c) THEN "newline"
    ELSE IF c = "-" /\ pk(1) = "-" /\ pk(2) = "[" /\ pk(3) = "[" THEN "long_comment"
    ELSE IF c = "-" /\ pk(1) = "-" THEN "comment"
    ELSE IF c = "[" /\ pk(1) = "[" THEN "long_string"
    ELSE IF c = "\"" \/ c = "'" THEN "short_string"
    ELSE IF c = "." /\ pk(1) = "." THEN "dots"
    ELSE IF c = "0" /\ pk(1) = "x" THEN "hex"
    ELSE IF /\ is_numeric(c) \/ c = "-" \/ c = "."
            /\ ~((c = "-" \/ c = ".") /\ number_string(lx) = <<>>) THEN "number"
    ELSE IF is_alphabetic(c) \/ c = "_" THEN "identifier"
    ELSE "symbol"

\* the loop head reads a character that the given branch handles
AtBranch(b) ==
    /\ lexPc = "scan"
    /\ ~advance(lexer).panic
    /\ advance(lexer).c # None
    /\ branch(advance(lexer).lx, advance(lexer).c[1]) = b

\* end of one iteration: a is the result of the branch's last advance
Continue(a, toks, log) ==
    /\ lexer' = a.lx
    /\ tokens' = toks
    /\ lexLog' = log
    /\ lexPc' = IF a.panic THEN "panic" ELSE "scan"
    /\ UNCHANGED <<lexResult, parseVars>>

TokenizeWhitespace ==
    /\ AtBranch("whitespace")
    /\ Continue(advance(lexer), tokens, lexLog)

TokenizeNewline ==
    /\ AtBranch("newline")
    /\ LET a == advance(lexer) IN
       Continue([a EXCEPT !.lx.line = @ + 1, !.lx.column = 0], tokens, lexLog)

TokenizeLongComment ==
    /\ AtBranch("long_comment")
    /\ LET lx == advance(lexer).lx
           w == while_peek(lx, "close_long", "any")
       IN  Continue(advance_nth(lx, w.n + 1), tokens, lexLog)

TokenizeComment ==
    /\ AtBranch("comment")
    /\ LET lx == advance(lexer).lx
           w == while_peek(lx, "end_of_line", "any")
       IN  Continue(advance_nth(lx, w.n - 1), tokens, lexLog)

TokenizeLongString ==
    /\ AtBranch("long_string")
    /\ LET a == advance(advance(lexer).lx) IN
       IF a.panic THEN Continue(a, tokens, lexLog)
       ELSE LET w == while_peek(a.lx, "close_long", "any") IN
            Continue(advance_nth(a.lx, w.n + 1),
                     Append(tokens, Token_STRING(remove_last(w.str))), lexLog)

\* string.chars().last().unwrap() panics on the empty string
TokenizeShortString ==
    /\ AtBranch("short_string")
    /\ LET lx == advance(lexer).lx
           w == while_peek(lx, "short_string", "not_quote")
           paniced == [lx |-> lx, c |-> None, panic |-> TRUE]
       IN  IF w.panic \/ w.str = <<>> THEN Continue(paniced, tokens, lexLog)
           ELSE LET end_of_line == is_end_of_line(w.str[Len(w.str)]) IN
                IF is_end_of_file_nth(lx, lx.cursor + w.n) \/ end_of_line
                THEN Continue(advance_nth([lx EXCEPT !.errored = TRUE],
                                          IF end_of_line THEN w.n - 2 ELSE w.n),
                              tokens, Append(lexLog, Diag("unclosed string", lx)))
                ELSE Continue(advance_nth(lx, w.n),
                              Append(tokens, Token_STRING(remove_last(w.str))), lexLog)

TokenizeDots ==
    /\ AtBranch("dots")
    /\ LET lx == advance(lexer).lx IN
       IF unwrap_or_default(peek_nth(lx, 2)) = "."
       THEN Continue(advance_nth(lx, 2), Append(tokens, Tok("DOTS")), lexLog)
       ELSE Continue(advance(lx), Append(tokens, Tok("CONCAT")), lexLog)

TokenizeHex ==
    /\ AtBranch("hex")
    /\ LET a == advance(advance(lexer).lx) IN
       IF a.panic THEN Continue(a, tokens, lexLog)
       ELSE LET w == while_peek(a.lx, "end_of_line", "hex")
                r == from_str_radix(remove_last(w.str))
            IN  IF r.ok
                THEN Continue(advance_nth(a.lx, w.n - 1),
                              Append(tokens, Token_NUMBER(r.n, 0)), lexLog)
                ELSE Continue(advance_nth([a.lx EXCEPT !.errored = TRUE], w.n - 1),
                              Append(tokens, Token_NUMBER(0, 0)),
                              Append(lexLog, Diag("could not lex hexadecimal number", a.lx)))

TokenizeNumber ==
    /\ AtBranch("number")
    /\ LET a == advance(lexer)
           w == while_peek(a.lx, "end_of_line", "number")
           r == parse_f64(<<a.c[1]>> \o number_string(a.lx))
       IN  IF r.ok
           THEN Continue(advance_nth(a.lx, w.n - 1),
                         Append(tokens, Token_NUMBER(r.n, r.e)), lexLog)
           ELSE Continue(advance_nth([a.lx EXCEPT !.errored = TRUE], w.n - 1),
                         Append(tokens, Token_NUMBER(0, 0)),
                         Append(lexLog, Diag("could not lex number", a.lx)))

TokenizeIdentifier ==
    /\ AtBranch("identifier")
    /\ LET a == advance(lexer)
           w == while_peek(a.lx, "end_of_line", "identifier")
           string == <<a.c[1]>> \o remove_last(w.str)
           kw == keywords_get(string)
       IN  Continue(advance_nth(a.lx, w.n - 1),
                    Append(tokens, IF kw # None THEN kw[1] ELSE Token_NAME(string)),
                    lexLog)

TokenizeSymbol ==
    /\ AtBranch("symbol")
    /\ LET a == advance(lexer)
           m == symbol(a.lx, a.c[1])
           lx2 == IF m.tok = UNDEFINED THEN [a.lx EXCEPT !.errored = TRUE] ELSE a.lx
           log == IF m.tok = UNDEFINED
                  THEN Append(lexLog, Diag("undefined token", a.lx)) ELSE lexLog
       IN  Continue(IF m.skip_char THEN advance(lx2) ELSE [a EXCEPT !.lx = lx2],
                    Append(tokens, m.tok), log)

\* the unwrap in the advance() of the loop head panics
TokenizePanic ==
    /\ lexPc = "scan"
    /\ advance(lexer).panic
    /\ lexer' = advance(lexer).lx
    /\ lexPc' = "panic"
    /\ UNCHANGED <<tokens, lexResult, lexLog, parseVars>>

\* a tokenize that returns the token list whether or not an error was recorded
TokenizeReturnIgnoringErrors ==
    /\ lexPc = "scan"
    /\ ~advance(lexer).panic
    /\ advance(lexer).c = None
    /\ lexer' = advance(lexer).lx
    /\ lexResult' = Some(tokens)
    /\ lexPc' = "done"
    /\ UNCHANGED <<tokens, lexLog, parseVars>>

\* advance() returns None: the loop ends and tokenize returns
TokenizeReturn ==
    /\ lexPc = "scan"
    /\ ~advance(lexer).panic
    /\ advance(lexer).c = None
    /\ lexer' = advance(lexer).lx
    /\ lexResult' = IF lexer.errored THEN None ELSE Some(tokens)
    /\ lexPc' = "done"
    /\ UNCHANGED <<tokens, lexLog, parseVars>>

Tokenize ==
    \/ TokenizeWhitespace \/ TokenizeNewline \/ TokenizeLongComment \/ TokenizeComment
    \/ TokenizeLongString \/ TokenizeShortString \/ TokenizeDots \/ TokenizeHex
    \/ TokenizeNumber \/ TokenizeIdentifier \/ TokenizeSymbol
    \/ TokenizePanic \/ TokenizeReturn

(***************************************************************************)
(* The source texts handed to Lexer::new                                   *)
(***************************************************************************)
LexAlphabet == {" ", "\n", "-", "[", "]", "\"", ".", "0", "x", "1", "a", "~", EAcute}

SeqsUpTo(S, n) == UNION {[1..k -> S] : k \in 0..n}

Unterminated == <<"\"", "u", "n", "t", "e", "r", "m", "i", "n", "a", "t", "e", "d">>

SampleSources ==
    { Unterminated,
      <<" ">> \o Unterminated,
      <<"x", "\n", " ">> \o Unterminated,
      <<"~", " ", "~", " ", "a", " ">>,
      <<"~", "\n", "a", " ", "'", "b", "\n", "0", "x", " ">>,
      <<"a", " ", "\"", "b", "c", "\"", " ">>,
      <<"-", "-", "[", "[", "a", "\n", "]", "]", " ", "~">>,
      <<"[", "[", "a", "\n", "]", "]", " ", "~">>,
      <<"-", "-", "a", "\n", "~">>,
      <<"a", ".", ".", ".", "b", ".", ".", "c", " ">> }

\* "it's" alone, and "it's", 'a"b', "a\"b" and "ab" between two blanks
ItsText == <<"\"", "i", "t", "'", "s", "\"">>
OtherQuoteText == <<"'", "a", "\"", "b", "'">>
EscapedQuoteText == <<"\"", "a", "\\", "\"", "b", "\"">>
PlainQuoteText == <<"\"", "a", "b", "\"">>
Spaced(text) == <<" ">> \o text \o <<" ">>
QuoteSamples ==
    { ItsText, Spaced(ItsText), Spaced(OtherQuoteText), Spaced(EscapedQuoteText),
      Spaced(PlainQuoteText) }

\* 0x1F and 0X1F before a blank, and the prefix 0x with no digit after it
HexSamples ==
    { <<"0", "x", "1", "F", " ">>, <<"0", "X", "1", "F", " ">>, <<"0", "x", "1", "f", " ">>,
      <<"0", "x", " ">> }

\* abc, end, 123 and 0x1F as the last lexeme of the text, and before a blank
FinalLexemes == {<<"a", "b", "c">>, <<"e", "n", "d">>, <<"1", "2", "3">>, <<"0", "x", "1", "F">>}
FinalLexemeSamples == FinalLexemes \cup {text \o <<" ">> : text \in FinalLexemes}

\* texts around `-`, `.` and `_`: signs and numerals, dots, identifiers
LexemeSamples ==
    { <<"-", "1">>, <<"a", "-", "1">>, <<"1", "-", "2">>, <<"-", "1", " ">>,
      <<"1", " ", "-", " ", "2", " ">>,
      <<".", ".", ".">>, <<".", ".">>, <<"t", ".", "e">>, <<"t", ".", "e", " ">>,
      <<".", "_", " ">>, <<".", " ">>, <<".", "5", " ">>,
      <<"a", "_", "b", " ">>, <<"_", "a", "1", " ">>, <<"e", "n", "d", " ">>,
      <<"e", "n", "d", "s", " ">> }
    \cup QuoteSamples \cup HexSamples \cup FinalLexemeSamples
    \cup { <<"-", "-", "a", "\n", " ", " ", " ", "~">> }

Sources == SeqsUpTo(LexAlphabet, MaxTape) \cup SampleSources \cup LexemeSamples

(***************************************************************************)
(* ASTNode: a node is a tuple whose first element names the variant        *)
(***************************************************************************)
Chunk(stmts, last_statement) == <<"Chunk", stmts, last_statement>>
Block(n) == <<"Block", n>>
Statement(n) == <<"Statement", n>>
Expression(n) == <<"Expression", n>>
FunctionCall(n) == <<"FunctionCall", n>>
LValueAssign(var_list, expression_list) == <<"LValueAssign", var_list, expression_list>>
Do(n) == <<"Do", n>>
While(expression, do_block) == <<"While", expression, do_block>>
Repeat(blk, expression) == <<"Repeat", blk, expression>>
If(expression, blk, elseif, then_else) == <<"If", expression, blk, elseif, then_else>>
ForNumeric(nm, from_expression, to_expression, step_expression, do_block) ==
    <<"ForNumeric", nm, from_expression, to_expression, step_expression, do_block>>
ForGeneric(name_list, expression_list_1, do_block) ==
    <<"ForGeneric", name_list, expression_list_1, do_block>>
Function(function_body) == <<"Function", function_body>>
FunctionStatement(func_name, function_body) == <<"FunctionStatement", func_name, function_body>>
LocalFunction(nm, function_body) == <<"LocalFunction", nm, function_body>>
LocalVariable(name_list, expression_list) == <<"LocalVariable", name_list, expression_list>>
FunctionName(nm, members, colon) == <<"FunctionName", nm, members, colon>>
VariableList(variable, tail_list) == <<"VariableList", variable, tail_list>>
Variable(n) == <<"Variable", n>>
PrefixExpression(n) == <<"PrefixExpression", n>>
PrefixExpressionBracketsExpression(prefix_expression, expression) ==
    <<"PrefixExpressionBracketsExpression", prefix_expression, expression>>
PrefixExpressionDotName(prefix_expression, nm) ==
    <<"PrefixExpressionDotName", prefix_expression, nm>>
PrefixExpressionArgs(prefix_expression, arguments) ==
    <<"PrefixExpressionArgs", prefix_expression, arguments>>
PrefixExpressionNameArgs(prefix_expression, nm, arguments) ==
    <<"PrefixExpressionNameArgs", prefix_expression, nm, arguments>>
NameList(nm, tail_list) == <<"NameList", nm, tail_list>>
BinaryOp(left, binary_operator, right) == <<"BinaryOp", left, binary_operator, right>>
UnaryOp(unary_operator, right) == <<"UnaryOp", unary_operator, right>>
ExpressionList(head_list, expression) == <<"ExpressionList", head_list, expression>>
ArgsParamList(o) == <<"ArgsParamList", o>>
FunctionBody(parameter_list, blk) == <<"FunctionBody", parameter_list, blk>>
ParameterListA(name_list, variadic) == <<"ParameterListA", name_list, variadic>>
ParameterListB(n) == <<"ParameterListB", n>>
TableConstructor(o) == <<"TableConstructor", o>>
FieldList(fld, separated_fields, separator) == <<"FieldList", fld, separated_fields, separator>>
Field(n) == <<"Field", n>>
FieldA(expression_a, expression_b) == <<"FieldA", expression_a, expression_b>>
FieldB(nm, expression) == <<"FieldB", nm, expression>>
Fieldsep(n) == <<"Fieldsep", n>>
Args(n) == <<"Args", n>>
LastStatement(n) == <<"LastStatement", n>>
Name(str) == <<"Name", str>>
Token(t) == <<"Token", t>>

(***************************************************************************)
(* Parser: cursor primitives.  A parser value p is the struct; log is the  *)
(* text printed by log_error!.                                             *)
(***************************************************************************)
Parser_new(toks) == [tokens |-> toks, cursor |-> 0, errored |-> FALSE, log |-> <<>>]

is_eof(p) == p.cursor >= Len(p.tokens)

current(p) == IF p.cursor < Len(p.tokens) THEN p.tokens[p.cursor + 1] ELSE UNDEFINED

report_expected_error(p, expected) ==
    [p EXCEPT !.errored = TRUE,
              !.log = Append(@, [expected |-> expected, found |-> current(p)])]

is_match(p, token) == ~is_eof(p) /\ current(p) = token

parser_advance(p) == [p EXCEPT !.cursor = @ + 1]

accept(p, token) ==
    IF is_match(p, token) THEN [ok |-> TRUE, p |-> parser_advance(p)]
    ELSE [ok |-> FALSE, p |-> p]

\* an expect that skips the offending token when it records the mismatch
expect_skipping(p, token) ==
    IF ~accept(p, token).ok
    THEN [p EXCEPT !.errored = TRUE, !.cursor = @ + 1,
                   !.log = Append(@, [expected |-> token.k, found |-> current(p)])]
    ELSE accept(p, token).p

expect(p, token) ==
    IF ~accept(p, token).ok
    THEN [p EXCEPT !.errored = TRUE,
                   !.log = Append(@, [expected |-> token.k, found |-> current(p)])]
    ELSE accept(p, token).p

(***************************************************************************)
(* Results of the parsing methods: the MaybeASTNode returned and the       *)
(* parser afterwards.  ovf says that the call never returns: a method was  *)
(* entered again, below itself, at the same cursor, and as the methods     *)
(* decide by tokens and cursor only the recursion repeats until the stack  *)
(* overflows.  The argument k of a method is the set of <<method, cursor>> *)
(* pairs of the calls that are open above it.                              *)
(***************************************************************************)
Ret(node, p) == [node |-> node, p |-> p, ovf |-> FALSE]
Overflow(p) == [node |-> None, p |-> p, ovf |-> TRUE]

\* r.or_else(|| { self.report_expected_error(expected); None })
or_else_report(r, expected) ==
    IF r.ovf \/ r.node # None THEN r
    ELSE Ret(None, report_expected_error(r.p, expected))

\* self.<method>(): the parsing methods call one another by name; call
\* (defined after them) hands the parser and the open calls to the method named
RECURSIVE call(_, _, _)

name(p) ==
    IF current(p).k = "NAME" THEN Ret(Some(Name(current(p).s)), parser_advance(p))
    ELSE Ret(None, p)

RECURSIVE namelist_loop(_, _)
namelist_loop(p, name_list) ==
    IF accept(p, Tok("COMMA")).ok
    THEN LET r == or_else_report(call("name", accept(p, Tok("COMMA")).p, {}), "<name>") IN
         IF r.node = None THEN r ELSE namelist_loop(r.p, Append(name_list, r.node[1]))
    ELSE Ret(Some(name_list), p)

namelist(p) ==
    LET r == call("name", p, {}) IN
    IF r.node # None
    THEN LET l == namelist_loop(r.p, <<>>) IN
         IF l.node = None THEN l ELSE Ret(Some(NameList(r.node[1], l.node[1])), l.p)
    ELSE Ret(None, r.p)

RECURSIVE funcname_loop(_, _)
funcname_loop(p, name_list) ==
    IF accept(p, Tok("DOT")).ok
    THEN LET r == or_else_report(call("name", accept(p, Tok("DOT")).p, {}), "<name>") IN
         IF r.node = None THEN r ELSE funcname_loop(r.p, Append(name_list, r.node[1]))
    ELSE Ret(Some(name_list), p)

funcname(p) ==
    LET r == call("name", p, {}) IN
    IF r.node # None
    THEN LET l == funcname_loop(r.p, <<>>) IN
         IF l.node = None THEN l
         ELSE IF accept(l.p, Tok("COLON")).ok
         THEN LET c == or_else_report(call("name", accept(l.p, Tok("COLON")).p, {}), "<name>") IN
              IF c.node = None THEN c
              ELSE Ret(Some(FunctionName(r.node[1], l.node[1], c.node)), c.p)
         ELSE Ret(Some(FunctionName(r.node[1], l.node[1], None)), l.p)
    ELSE Ret(None, r.p)

fieldsep(p) ==
    IF accept(p, Tok("COMMA")).ok
    THEN Ret(Some(Fieldsep(Token(Tok("COMMA")))), accept(p, Tok("COMMA")).p)
    ELSE IF accept(p, Tok("SEMICOLON")).ok
    THEN Ret(Some(Fieldsep(Token(Tok("SEMICOLON")))), accept(p, Tok("SEMICOLON")).p)
    ELSE Ret(None, p)

parlist1(p) ==
    LET r == call("namelist", p, {}) IN
    IF r.node # None
    THEN IF accept(r.p, Tok("COMMA")).ok
         THEN Ret(Some(ParameterListA(r.node[1], TRUE)),
                  expect(accept(r.p, Tok("COMMA")).p, Tok("DOTS")))
         ELSE Ret(Some(ParameterListA(r.node[1], FALSE)), r.p)
    ELSE IF accept(r.p, Tok("DOTS")).ok
    THEN Ret(Some(ParameterListB(Token(Tok("DOTS")))), accept(r.p, Tok("DOTS")).p)
    ELSE Ret(None, r.p)

RECURSIVE explist1_loop(_, _, _), varlist_loop(_, _, _), fieldlist_loop(_, _, _),
          if_elseifs(_, _, _), chunk_loop(_, _, _)

explist1_loop(p, k, exp_list) ==
    LET r == call("exp", p, k) IN
    IF r.node = None THEN r
    ELSE IF accept(r.p, Tok("COMMA")).ok
    THEN explist1_loop(accept(r.p, Tok("COMMA")).p, k, Append(exp_list, r.node[1]))
    ELSE Ret(Some(ExpressionList(exp_list, r.node[1])), r.p)

explist1(p, k) == explist1_loop(p, k, <<>>)

varlist_loop(p, k, var_list) ==
    IF accept(p, Tok("COMMA")).ok
    THEN LET r == or_else_report(call("var", accept(p, Tok("COMMA")).p, k), "<var>") IN
         IF r.node = None THEN r ELSE varlist_loop(r.p, k, Append(var_list, r.node[1]))
    ELSE Ret(Some(var_list), p)

varlist(p, k) ==
    LET r == call("var", p, k) IN
    IF r.node # None
    THEN LET l == varlist_loop(r.p, k, <<>>) IN
         IF l.node = None THEN l ELSE Ret(Some(VariableList(r.node[1], l.node[1])), l.p)
    ELSE r

field(p, k) ==
    IF accept(p, Tok("LEFT_BRACKET")).ok
    THEN LET exp1 == or_else_report(call("exp", accept(p, Tok("LEFT_BRACKET")).p, k), "<exp>") IN
         IF exp1.node = None THEN exp1
         ELSE LET p2 == expect(expect(exp1.p, Tok("RIGHT_BRACKET")), Tok("ASSIGN"))
                  exp2 == or_else_report(call("exp", p2, k), "<exp>")
              IN  IF exp2.node = None THEN exp2
                  ELSE Ret(Some(Field(FieldA(exp1.node[1], exp2.node[1]))), exp2.p)
    ELSE LET nm == call("name", p, {}) IN
         IF nm.node # None
         THEN LET e == or_else_report(call("exp", expect(nm.p, Tok("ASSIGN")), k), "<exp>") IN
              IF e.node = None THEN e
              ELSE Ret(Some(Field(FieldB(nm.node[1], e.node[1]))), e.p)
         ELSE LET e == call("exp", nm.p, k) IN
              IF e.node # None THEN Ret(Some(Field(e.node[1])), e.p) ELSE e

fieldlist_loop(p, k, fieldseps) ==
    LET sep == call("fieldsep", p, {}) IN
    IF sep.node # None
    THEN LET f == or_else_report(call("field", sep.p, k), "<field>") IN
         IF f.node = None THEN f
         ELSE fieldlist_loop(f.p, k, Append(fieldseps, <<sep.node[1], f.node[1]>>))
    ELSE Ret(Some(fieldseps), sep.p)

fieldlist(p, k) ==
    LET f == call("field", p, k) IN
    IF f.node # None
    THEN LET l == fieldlist_loop(f.p, k, <<>>) IN
         IF l.node = None THEN l
         ELSE LET sep == call("fieldsep", l.p, {}) IN
              Ret(Some(FieldList(f.node[1], l.node[1], sep.node)), sep.p)
    ELSE f

tableconstructor(p, k) ==
    IF accept(p, Tok("LEFT_BRACE")).ok
    THEN LET field_list == call("fieldlist", accept(p, Tok("LEFT_BRACE")).p, k) IN
         IF field_list.ovf THEN field_list
         ELSE Ret(Some(TableConstructor(field_list.node)),
                  expect(field_list.p, Tok("RIGHT_BRACE")))
    ELSE Ret(None, p)

args(p, k) ==
    IF accept(p, Tok("LEFT_PAREN")).ok
    THEN LET exp_list == call("explist1", accept(p, Tok("LEFT_PAREN")).p, k) IN
         IF exp_list.ovf THEN exp_list
         ELSE Ret(Some(Args(ArgsParamList(exp_list.node))),
                  expect(exp_list.p, Tok("RIGHT_PAREN")))
    ELSE LET table_constructor == call("tableconstructor", p, k) IN
         IF table_constructor.ovf THEN table_constructor
         ELSE IF table_constructor.node # None
         THEN Ret(Some(Args(table_constructor.node[1])), table_constructor.p)
         ELSE IF current(table_constructor.p).k = "STRING"
         THEN Ret(Some(Args(Token(current(table_constructor.p)))),
                  parser_advance(table_constructor.p))
         ELSE Ret(None, table_constructor.p)

functioncall(p, k) ==
    LET k2 == k \cup {<<"functioncall", p.cursor>>}
        pe1 == call("prefixexp", p, k2)
    IN  IF <<"functioncall", p.cursor>> \in k THEN Overflow(p)
        ELSE IF pe1.ovf THEN pe1
        ELSE IF pe1.node # None
        THEN LET a == or_else_report(call("args", pe1.p, k2), "<args>") IN
             IF a.node = None THEN a
             ELSE Ret(Some(FunctionCall(PrefixExpressionArgs(pe1.node[1], a.node[1]))), a.p)
        ELSE LET pe2 == call("prefixexp", pe1.p, k2) IN
             IF pe2.ovf THEN pe2
             ELSE IF pe2.node # None
             THEN LET nm == or_else_report(call("name", expect(pe2.p, Tok("COLON")), {}), "<name>") IN
                  IF nm.node = None THEN nm
                  ELSE LET a == or_else_report(call("args", nm.p, k2), "<args>") IN
                       IF a.node = None THEN a
                       ELSE Ret(Some(FunctionCall(PrefixExpressionNameArgs(
                                    pe2.node[1], nm.node[1], a.node[1]))), a.p)
             ELSE Ret(None, pe2.p)

var(p, k) ==
    LET k2 == k \cup {<<"var", p.cursor>>}
        nm == call("name", p, {})
    IN  IF <<"var", p.cursor>> \in k THEN Overflow(p)
        ELSE IF nm.node # None THEN Ret(Some(Variable(nm.node[1])), nm.p)
        ELSE LET pe == call("prefixexp", nm.p, k2) IN
             IF pe.ovf THEN pe
             ELSE IF pe.node # None
             THEN IF accept(pe.p, Tok("LEFT_BRACKET")).ok
                  THEN LET e == or_else_report(
                                    call("exp", accept(pe.p, Tok("LEFT_BRACKET")).p, k2), "<exp>") IN
                       IF e.node = None THEN e
                       ELSE Ret(Some(Variable(PrefixExpressionBracketsExpression(
                                    pe.node[1], e.node[1]))),
                                expect(e.p, Tok("RIGHT_BRACKET")))
                  ELSE IF accept(pe.p, Tok("DOT")).ok
                  THEN LET n2 == or_else_report(call("name", accept(pe.p, Tok("DOT")).p, {}), "<name>") IN
                       IF n2.node = None THEN n2
                       ELSE Ret(Some(Variable(PrefixExpressionDotName(
                                    pe.node[1], n2.node[1]))), n2.p)
                  ELSE Ret(None, pe.p)
             ELSE Ret(None, pe.p)

prefixexp(p, k) ==
    LET k2 == k \cup {<<"prefixexp", p.cursor>>}
        v == call("var", p, k2)
    IN  IF <<"prefixexp", p.cursor>> \in k THEN Overflow(p)
        ELSE IF v.ovf THEN v
        ELSE IF v.node # None THEN Ret(Some(PrefixExpression(v.node[1])), v.p)
        ELSE LET fc == call("functioncall", v.p, k2) IN
             IF fc.ovf THEN fc
             ELSE IF fc.node # None THEN Ret(Some(PrefixExpression(fc.node[1])), fc.p)
             ELSE IF accept(fc.p, Tok("LEFT_PAREN")).ok
             THEN LET e == or_else_report(
                               call("exp", accept(fc.p, Tok("LEFT_PAREN")).p, k2), "<exp>") IN
                  IF e.node = None THEN e
                  ELSE Ret(Some(PrefixExpression(e.node[1])),
                           expect(e.p, Tok("RIGHT_PAREN")))
             ELSE Ret(None, fc.p)

funcbody(p, k) ==
    IF accept(p, Tok("LEFT_PAREN")).ok
    THEN LET parameter_list == call("parlist1", accept(p, Tok("LEFT_PAREN")).p, {})
             b == or_else_report(
                      call("block", expect(parameter_list.p, Tok("RIGHT_PAREN")), k), "<block>")
         IN  IF b.node = None THEN b
             ELSE Ret(Some(FunctionBody(parameter_list.node, b.node[1])), b.p)
    ELSE Ret(None, p)

function(p, k) ==
    IF accept(p, Tok("FUNCTION")).ok
    THEN LET fb == or_else_report(call("funcbody", accept(p, Tok("FUNCTION")).p, k), "<funcbody>") IN
         IF fb.node = None THEN fb ELSE Ret(Some(Function(fb.node[1])), fb.p)
    ELSE Ret(None, p)

\* self.accept(A) || self.accept(B) || ...: the first alternative that matches consumes
accept_any(p, kinds) ==
    IF ~is_eof(p) /\ current(p).k \in kinds /\ current(p) = Tok(current(p).k)
    THEN [ok |-> TRUE, p |-> parser_advance(p)]
    ELSE [ok |-> FALSE, p |-> p]

exp_or(p, k) ==
    LET l == call("exp_and", p, k) IN
    IF l.node # None
    THEN IF accept(l.p, Tok("OR")).ok
         THEN LET r == or_else_report(call("exp_and", accept(l.p, Tok("OR")).p, k), "<exp>") IN
              IF r.node = None THEN r
              ELSE Ret(Some(Expression(BinaryOp(l.node[1], Token(Tok("OR")), r.node[1]))), r.p)
         ELSE l
    ELSE l

exp_and(p, k) ==
    LET l == call("exp_eqaulity", p, k) IN
    IF l.node # None
    THEN IF accept(l.p, Tok("AND")).ok
         THEN LET r == or_else_report(call("exp_eqaulity", accept(l.p, Tok("AND")).p, k), "<exp>") IN
              IF r.node = None THEN r
              ELSE Ret(Some(Expression(BinaryOp(l.node[1], Token(Tok("AND")), r.node[1]))), r.p)
         ELSE l
    ELSE l

exp_eqaulity(p, k) ==
    LET l == call("exp_concat", p, k) IN
    IF l.node # None
    THEN IF accept_any(l.p, {"GREATER_THAN", "LESS_THAN", "LESS_EQUAL", "GREATER_EQUAL", "NEQ", "EQ"}).ok
         THEN LET r == or_else_report(call("exp_concat", accept_any(l.p, {"GREATER_THAN", "LESS_THAN", "LESS_EQUAL", "GREATER_EQUAL", "NEQ", "EQ"}).p, k), "<exp>") IN
              IF r.node = None THEN r
              ELSE Ret(Some(Expression(BinaryOp(l.node[1], Token(current(l.p)), r.node[1]))), r.p)
         ELSE l
    ELSE l

exp_concat(p, k) ==
    LET l == call("exp_term", p, k) IN
    IF l.node # None
    THEN IF accept(l.p, Tok("CONCAT")).ok
         THEN LET r == or_else_report(call("exp_term", accept(l.p, Tok("CONCAT")).p, k), "<exp>") IN
              IF r.node = None THEN r
              ELSE Ret(Some(Expression(BinaryOp(l.node[1], Token(Tok("CONCAT")), r.node[1]))), r.p)
         ELSE l
    ELSE l

\* an exp_term whose operands are unary expressions: the level of * / % is skipped
exp_term_skipping_factor(p, k) ==
    LET l == call("exp_unary", p, k) IN
    IF l.node # None
    THEN IF accept_any(l.p, {"ADD", "SUBTRACT"}).ok
         THEN LET r == or_else_report(
                           call("exp_unary", accept_any(l.p, {"ADD", "SUBTRACT"}).p, k), "<exp>") IN
              IF r.node = None THEN r
              ELSE Ret(Some(Expression(BinaryOp(l.node[1], Token(current(l.p)), r.node[1]))), r.p)
         ELSE l
    ELSE l

exp_term(p, k) ==
    LET l == call("exp_factor", p, k) IN
    IF l.node # None
    THEN IF accept_any(l.p, {"ADD", "SUBTRACT"}).ok
         THEN LET r == or_else_report(call("exp_factor", accept_any(l.p, {"ADD", "SUBTRACT"}).p, k), "<exp>") IN
              IF r.node = None THEN r
              ELSE Ret(Some(Expression(BinaryOp(l.node[1], Token(current(l.p)), r.node[1]))), r.p)
         ELSE l
    ELSE l

exp_factor(p, k) ==
    LET l == call("exp_unary", p, k) IN
    IF l.node # None
    THEN IF accept_any(l.p, {"MULTIPLY", "DIVIDE", "MODULO"}).ok
         THEN LET r == or_else_report(call("exp_unary", accept_any(l.p, {"MULTIPLY", "DIVIDE", "MODULO"}).p, k), "<exp>") IN
              IF r.node = None THEN r
              ELSE Ret(Some(Expression(BinaryOp(l.node[1], Token(current(l.p)), r.node[1]))), r.p)
         ELSE l
    ELSE l

exp_unary(p, k) ==
    IF accept_any(p, {"NOT", "HASHTAG", "SUBTRACT"}).ok
    THEN LET r == or_else_report(
                      call("exp_exponent", accept_any(p, {"NOT", "HASHTAG", "SUBTRACT"}).p, k), "<exp>") IN
         IF r.node = None THEN r
         ELSE Ret(Some(Expression(UnaryOp(Token(current(p)), r.node[1]))), r.p)
    ELSE call("exp_exponent", p, k)

exp_exponent(p, k) ==
    LET l == call("exp_primary", p, k) IN
    IF l.node # None
    THEN IF accept(l.p, Tok("XOR")).ok
         THEN LET r == or_else_report(call("exp_primary", accept(l.p, Tok("XOR")).p, k), "<exp>") IN
              IF r.node = None THEN r
              ELSE Ret(Some(Expression(BinaryOp(l.node[1], Token(Tok("XOR")), r.node[1]))), r.p)
         ELSE l
    ELSE l

exp_primary(p, k) ==
    IF current(p).k \in {"NUMBER", "STRING", "NAME"}
       \/ current(p) \in {Tok("NIL"), Tok("FALSE"), Tok("TRUE"), Tok("DOTS")}
    THEN Ret(Some(Expression(Token(current(p)))), parser_advance(p))
    ELSE IF accept(p, Tok("LEFT_PAREN")).ok
    THEN LET e == or_else_report(call("exp_or", accept(p, Tok("LEFT_PAREN")).p, k), "<exp>") IN
         IF e.node = None THEN e
         ELSE Ret(Some(Expression(e.node[1])), expect(e.p, Tok("RIGHT_PAREN")))
    ELSE Ret(None, p)

exp(p, k) ==
    LET k2 == k \cup {<<"exp", p.cursor>>}
        o == call("exp_or", p, k2)
    IN  IF <<"exp", p.cursor>> \in k THEN Overflow(p)
        ELSE IF o.ovf THEN o
        ELSE IF o.node # None THEN Ret(Some(Expression(o.node[1])), o.p)
        ELSE LET f == call("function", o.p, k2) IN
             IF f.ovf THEN f
             ELSE IF f.node # None THEN Ret(Some(Expression(f.node[1])), f.p)
             ELSE LET t == call("tableconstructor", f.p, k2) IN
                  IF t.ovf THEN t
                  ELSE IF t.node # None THEN Ret(Some(Expression(t.node[1])), t.p)
                  ELSE LET pe == call("prefixexp", t.p, k2) IN
                       IF pe.ovf THEN pe
                       ELSE IF pe.node # None THEN Ret(Some(Expression(pe.node[1])), pe.p)
                       ELSE Ret(None, pe.p)

\* block, expect(END): the tail shared by the do, while and for statements
do_block_end(p, k) ==
    LET b == or_else_report(call("block", p, k), "<block>") IN
    IF b.node = None THEN b ELSE Ret(b.node, expect(b.p, Tok("END")))

stat_do(p, k) ==
    LET b == call("do_block_end", p, k) IN
    IF b.node = None THEN b ELSE Ret(Some(Statement(Do(b.node[1]))), b.p)

stat_while(p, k) ==
    LET e == or_else_report(call("exp", p, k), "<exp>") IN
    IF e.node = None THEN e
    ELSE LET b == call("do_block_end", expect(e.p, Tok("DO")), k) IN
         IF b.node = None THEN b
         ELSE Ret(Some(Statement(While(e.node[1], b.node[1]))), b.p)

stat_repeat(p, k) ==
    LET b == or_else_report(call("block", p, k), "<block>") IN
    IF b.node = None THEN b
    ELSE LET e == or_else_report(call("exp", expect(b.p, Tok("UNTIL")), k), "<exp>") IN
         IF e.node = None THEN e
         ELSE Ret(Some(Statement(Repeat(b.node[1], e.node[1]))), expect(e.p, Tok("END")))

\* exp, expect(THEN), block: the head of an if and of each elseif
cond_then_block(p, k) ==
    LET e == or_else_report(call("exp", p, k), "<exp>") IN
    IF e.node = None THEN e
    ELSE LET b == or_else_report(call("block", expect(e.p, Tok("THEN")), k), "<block>") IN
         IF b.node = None THEN b ELSE Ret(Some(<<e.node[1], b.node[1]>>), b.p)

\* an if that takes no elseif part
if_without_elseifs(p, k, else_ifs) == Ret(Some(else_ifs), p)

if_elseifs(p, k, else_ifs) ==
    IF accept(p, Tok("ELSEIF")).ok
    THEN LET c == call("cond_then_block", accept(p, Tok("ELSEIF")).p, k) IN
         IF c.node = None THEN c ELSE if_elseifs(c.p, k, Append(else_ifs, c.node[1]))
    ELSE Ret(Some(else_ifs), p)

stat_if(p, k) ==
    LET c == call("cond_then_block", p, k) IN
    IF c.node = None THEN c
    ELSE LET ei == if_elseifs(c.p, k, <<>>) IN
         IF ei.node = None THEN ei
         ELSE IF accept(ei.p, Tok("ELSE")).ok
         THEN LET eb == or_else_report(call("block", accept(ei.p, Tok("ELSE")).p, k), "<block>") IN
              IF eb.node = None THEN eb
              ELSE Ret(Some(Statement(If(c.node[1][1], c.node[1][2], ei.node[1], eb.node))),
                       expect(eb.p, Tok("END")))
         ELSE Ret(Some(Statement(If(c.node[1][1], c.node[1][2], ei.node[1], None))),
                  expect(ei.p, Tok("END")))

\* the numeric for, after `for` and the name nm
stat_for_numeric(nm, k) ==
    LET e1 == or_else_report(call("exp", expect(nm.p, Tok("ASSIGN")), k), "<exp>") IN
    IF e1.node = None THEN e1
    ELSE LET e2 == or_else_report(call("exp", expect(e1.p, Tok("COMMA")), k), "<exp>") IN
         IF e2.node = None THEN e2
         ELSE LET e3 == IF accept(e2.p, Tok("COMMA")).ok
                        THEN or_else_report(call("exp", accept(e2.p, Tok("COMMA")).p, k), "<exp>")
                        ELSE Ret(None, e2.p)
              IN  IF accept(e2.p, Tok("COMMA")).ok /\ e3.node = None THEN e3
                  ELSE LET b == call("do_block_end", expect(e3.p, Tok("DO")), k) IN
                       IF b.node = None THEN b
                       ELSE Ret(Some(Statement(ForNumeric(nm.node[1], e1.node[1], e2.node[1],
                                                          e3.node, b.node[1]))), b.p)

\* the generic for, after `for` and the name list nl
stat_for_generic(nl, k) ==
    LET el == or_else_report(call("explist1", expect(nl.p, Tok("IN")), k), "<explist1>") IN
    IF el.node = None THEN el
    ELSE LET b == call("do_block_end", expect(el.p, Tok("DO")), k) IN
         IF b.node = None THEN b
         ELSE Ret(Some(Statement(ForGeneric(nl.node[1], el.node[1], b.node[1]))), b.p)

stat_function(p, k) ==
    LET fnm == or_else_report(call("funcname", p, {}), "<funcname>") IN
    IF fnm.node = None THEN fnm
    ELSE LET fb == or_else_report(call("funcbody", fnm.p, k), "<funcbody>") IN
         IF fb.node = None THEN fb
         ELSE Ret(Some(Statement(FunctionStatement(fnm.node[1], fb.node[1]))), fb.p)

\* the statements after `local`; the function call and the assignment are
\* alternatives inside this branch
stat_local(p, k) ==
    IF accept(p, Tok("FUNCTION")).ok
    THEN LET nm == or_else_report(call("name", accept(p, Tok("FUNCTION")).p, {}), "<name>") IN
         IF nm.node = None THEN nm
         ELSE LET fb == or_else_report(call("funcbody", nm.p, k), "<funcbody>") IN
              IF fb.node = None THEN fb
              ELSE Ret(Some(Statement(LocalFunction(nm.node[1], fb.node[1]))), fb.p)
    ELSE LET nl == call("namelist", p, {}) IN
         IF nl.node # None
         THEN IF accept(nl.p, Tok("ASSIGN")).ok
              THEN LET el == call("explist1", accept(nl.p, Tok("ASSIGN")).p, k) IN
                   IF el.ovf THEN el
                   ELSE Ret(Some(Statement(LocalVariable(nl.node[1], el.node))), el.p)
              ELSE Ret(Some(Statement(LocalVariable(nl.node[1], None))), nl.p)
         ELSE LET fc == call("functioncall", nl.p, k) IN
              IF fc.ovf THEN fc
              ELSE IF fc.node # None THEN Ret(Some(Statement(fc.node[1])), fc.p)
              ELSE LET vl == call("varlist", fc.p, k) IN
                   IF vl.ovf THEN vl
                   ELSE IF vl.node # None
                   THEN LET el == or_else_report(
                                      call("explist1", expect(vl.p, Tok("ASSIGN")), k), "<explist1>") IN
                        IF el.node = None THEN el
                        ELSE Ret(Some(Statement(LValueAssign(vl.node[1], el.node[1]))), el.p)
                   ELSE Ret(None, vl.p)

stat(p, k) ==
    IF accept(p, Tok("DO")).ok THEN call("stat_do", accept(p, Tok("DO")).p, k)
    ELSE IF accept(p, Tok("WHILE")).ok THEN call("stat_while", accept(p, Tok("WHILE")).p, k)
    ELSE IF accept(p, Tok("REPEAT")).ok THEN call("stat_repeat", accept(p, Tok("REPEAT")).p, k)
    ELSE IF accept(p, Tok("IF")).ok THEN call("stat_if", accept(p, Tok("IF")).p, k)
    ELSE LET f == accept(p, Tok("FOR")) IN
         IF f.ok /\ call("name", f.p, {}).node # None THEN stat_for_numeric(call("name", f.p, {}), k)
         ELSE IF f.ok /\ call("namelist", f.p, {}).node # None THEN stat_for_generic(call("namelist", f.p, {}), k)
         ELSE LET p1 == IF f.ok THEN call("namelist", f.p, {}).p ELSE p IN
              IF accept(p1, Tok("FUNCTION")).ok
              THEN call("stat_function", accept(p1, Tok("FUNCTION")).p, k)
              ELSE IF accept(p1, Tok("LOCAL")).ok
              THEN call("stat_local", accept(p1, Tok("LOCAL")).p, k)
              ELSE Ret(None, p1)

laststat(p, k) ==
    IF accept(p, Tok("RETURN")).ok
    THEN LET expression_list == call("explist1", accept(p, Tok("RETURN")).p, k) IN
         IF expression_list.ovf THEN expression_list
         ELSE Ret(Some(LastStatement(IF expression_list.node # None
                                     THEN expression_list.node[1]
                                     ELSE Token(Tok("RETURN")))), expression_list.p)
    ELSE IF accept(p, Tok("BREAK")).ok
    THEN Ret(Some(LastStatement(Token(Tok("BREAK")))), accept(p, Tok("BREAK")).p)
    ELSE Ret(None, p)

block(p, k) ==
    LET c == call("chunk", p, k) IN
    IF c.node # None THEN Ret(Some(Block(c.node[1])), c.p) ELSE c

\* one round of the `while let Some(tree) = self.stat()` loop; when stat
\* yields nothing the loop is left, laststat is called and the chunk is built
chunk_loop(p, k, stmts) ==
    LET s == call("stat", p, k) IN
    IF s.ovf THEN s
    ELSE IF s.node # None
    THEN chunk_loop(accept(s.p, Tok("SEMICOLON")).p, k, Append(stmts, s.node[1]))
    ELSE LET l == call("laststat", s.p, k) IN
         IF l.ovf THEN l ELSE Ret(Some(Chunk(stmts, l.node)), l.p)

chunk(p, k) == chunk_loop(p, k, <<>>)

call(method, p, k) ==
    CASE method = "field" -> field(p, k)
      [] method = "fieldlist" -> fieldlist(p, k)
      [] method = "tableconstructor" -> tableconstructor(p, k)
      [] method = "args" -> args(p, k)
      [] method = "functioncall" -> functioncall(p, k)
      [] method = "var" -> var(p, k)
      [] method = "prefixexp" -> prefixexp(p, k)
      [] method = "funcbody" -> funcbody(p, k)
      [] method = "function" -> function(p, k)
      [] method = "exp_or" -> exp_or(p, k)
      [] method = "exp_and" -> exp_and(p, k)
      [] method = "exp_eqaulity" -> exp_eqaulity(p, k)
      [] method = "exp_concat" -> exp_concat(p, k)
      [] method = "exp_term" -> exp_term(p, k)
      [] method = "exp_factor" -> exp_factor(p, k)
      [] method = "exp_unary" -> exp_unary(p, k)
      [] method = "exp_exponent" -> exp_exponent(p, k)
      [] method = "exp_primary" -> exp_primary(p, k)
      [] method = "exp" -> exp(p, k)
      [] method = "stat" -> stat(p, k)
      [] method = "laststat" -> laststat(p, k)
      [] method = "block" -> block(p, k)
      [] method = "chunk" -> chunk(p, k)
      [] method = "explist1" -> explist1(p, k)
      [] method = "varlist" -> varlist(p, k)
      [] method = "do_block_end" -> do_block_end(p, k)
      [] method = "stat_do" -> stat_do(p, k)
      [] method = "stat_while" -> stat_while(p, k)
      [] method = "stat_repeat" -> stat_repeat(p, k)
      [] method = "cond_then_block" -> cond_then_block(p, k)
      [] method = "stat_if" -> stat_if(p, k)
      [] method = "stat_function" -> stat_function(p, k)
      [] method = "stat_local" -> stat_local(p, k)
      [] method = "name" -> name(p)
      [] method = "namelist" -> namelist(p)
      [] method = "funcname" -> funcname(p)
      [] method = "fieldsep" -> fieldsep(p)
      [] method = "parlist1" -> parlist1(p)

\* Parser::parse, as a function of the parser handed in
parse(p) ==
    LET c == call("chunk", p, {}) IN
    IF c.ovf THEN c
    ELSE IF c.p.errored THEN Ret(None, c.p) ELSE c

\* a statement loop that stores each statement in front of the earlier ones
ParseStatPrepending ==
    /\ parsePc = "stat"
    /\ LET s == call("stat", parser, {}) IN
       /\ ~s.ovf
       /\ s.node # None
       /\ parser' = accept(s.p, Tok("SEMICOLON")).p
       /\ statements' = <<s.node[1]>> \o statements
    /\ UNCHANGED <<last, parsePc, tree, lexVars>>

(***************************************************************************)
(* Parser::parse with the outermost chunk unfolded: one action per round   *)
(* of its statement loop.                                                  *)
(***************************************************************************)
\* stat yields a statement: the optional `;` is accepted and the statement pushed
ParseStat ==
    /\ parsePc = "stat"
    /\ LET s == call("stat", parser, {}) IN
       /\ ~s.ovf
       /\ s.node # None
       /\ parser' = accept(s.p, Tok("SEMICOLON")).p
       /\ statements' = Append(statements, s.node[1])
    /\ UNCHANGED <<last, parsePc, tree, lexVars>>

\* stat yields nothing: the loop is left and laststat is called
ParseLastStat ==
    /\ parsePc = "stat"
    /\ LET s == call("stat", parser, {})
           l == call("laststat", s.p, {})
       IN  /\ ~s.ovf
           /\ s.node = None
           /\ ~l.ovf
           /\ parser' = l.p
           /\ last' = l.node
    /\ parsePc' = "chunked"
    /\ UNCHANGED <<statements, tree, lexVars>>

\* a call below stat or laststat recurs without end: the stack overflows
ParseOverflow ==
    /\ parsePc = "stat"
    /\ LET s == call("stat", parser, {}) IN
       IF s.ovf THEN TRUE ELSE s.node = None /\ call("laststat", s.p, {}).ovf
    /\ parsePc' = "overflow"
    /\ UNCHANGED <<parser, statements, last, tree, lexVars>>

\* chunk has returned: parse returns the chunk unless an error was recorded
ParseReturn ==
    /\ parsePc = "chunked"
    /\ tree' = IF parser.errored THEN None ELSE Some(Chunk(statements, last))
    /\ parsePc' = "done"
    /\ UNCHANGED <<parser, statements, last, lexVars>>

Parse == ParseStat \/ ParseLastStat \/ ParseOverflow \/ ParseReturn

(***************************************************************************)
(* The token vectors handed to Parser::new                                 *)
(***************************************************************************)
N(str) == Token_NAME(<<str>>)
Num(i) == Token_NUMBER(i, 0)

TokenAlphabet ==
    {N("x"), Num(1), Tok("RETURN"), Tok("DO"), Tok("END"), Tok("FOR"), Tok("LOCAL"),
     Tok("ASSIGN"), Tok("LEFT_PAREN"), Tok("SEMICOLON")}

\* x = 1 + 2 * 3
AssignSample ==
    <<N("x"), Tok("ASSIGN"), Num(1), Tok("ADD"), Num(2), Tok("MULTIPLY"), Num(3)>>

BinaryOps ==
    {"OR", "AND", "GREATER_THAN", "LESS_THAN", "LESS_EQUAL", "GREATER_EQUAL", "NEQ", "EQ",
     "CONCAT", "ADD", "SUBTRACT", "MULTIPLY", "DIVIDE", "MODULO", "XOR"}

UnaryOps == {"NOT", "HASHTAG", "SUBTRACT"}

\* return a op1 b op2 c
TwoOps(op1, op2) == <<Tok("RETURN"), N("a"), Tok(op1), N("b"), Tok(op2), N("c")>>

\* return u a op b
UnaryThenBinary(u, op) == <<Tok("RETURN"), Tok(u), N("a"), Tok(op), N("b")>>

SampleTokens ==
    {AssignSample}
    \cup {TwoOps(op1, op2) : op1 \in BinaryOps, op2 \in BinaryOps}
    \cup {UnaryThenBinary(u, op) : u \in UnaryOps, op \in BinaryOps}
    \cup { <<Tok("DO"), Tok("RETURN"), Tok("END")>>,
           <<Tok("DO"), Tok("RETURN"), Num(1), Tok("END"), Tok("SEMICOLON"), Tok("BREAK")>>,
           <<Tok("LOCAL"), N("x"), Tok("ASSIGN"), Num(1), Tok("RETURN"), N("x")>>,
           <<Tok("LOCAL"), N("x"), Tok("ASSIGN"), Tok("LEFT_PAREN"), Num(1), Tok("RETURN")>> }

\* return { 1 sep }   and   return { 1 , 2 }
TableTrailing(sep) ==
    <<Tok("RETURN"), Tok("LEFT_BRACE"), Num(1), Tok(sep), Tok("RIGHT_BRACE")>>
TableTwoFields ==
    <<Tok("RETURN"), Tok("LEFT_BRACE"), Num(1), Tok("COMMA"), Num(2), Tok("RIGHT_BRACE")>>

\* if a then return 1 elseif b then return 2 else return 3 end
IfSample ==
    <<Tok("IF"), N("a"), Tok("THEN"), Tok("RETURN"), Num(1),
      Tok("ELSEIF"), N("b"), Tok("THEN"), Tok("RETURN"), Num(2),
      Tok("ELSE"), Tok("RETURN"), Num(3), Tok("END")>>

\* for k, v in t do end   /   for k in t do end   /   for i = 1, 2 do end
ForGenericTwo ==
    <<Tok("FOR"), N("k"), Tok("COMMA"), N("v"), Tok("IN"), N("t"), Tok("DO"), Tok("END")>>
ForGenericOne == <<Tok("FOR"), N("k"), Tok("IN"), N("t"), Tok("DO"), Tok("END")>>
ForNumericSample ==
    <<Tok("FOR"), N("i"), Tok("ASSIGN"), Num(1), Tok("COMMA"), Num(2), Tok("DO"), Tok("END")>>

\* repeat until x   /   repeat until x end
RepeatSample == <<Tok("REPEAT"), Tok("UNTIL"), N("x")>>
RepeatEndSample == <<Tok("REPEAT"), Tok("UNTIL"), N("x"), Tok("END")>>

\* function f ( ) end   /   do function f ( ) end end
FunctionSample ==
    <<Tok("FUNCTION"), N("f"), Tok("LEFT_PAREN"), Tok("RIGHT_PAREN"), Tok("END")>>
DoFunctionSample == <<Tok("DO")>> \o FunctionSample \o <<Tok("END")>>

\* return a . b   /   return a [ 1 ]   /   return f ( x )   /   return o : m ( x )
SuffixSamples ==
    { <<Tok("RETURN"), N("a"), Tok("DOT"), N("b")>>,
      <<Tok("RETURN"), N("a"), Tok("LEFT_BRACKET"), Num(1), Tok("RIGHT_BRACKET")>>,
      <<Tok("RETURN"), N("f"), Tok("LEFT_PAREN"), N("x"), Tok("RIGHT_PAREN")>>,
      <<Tok("RETURN"), N("o"), Tok("COLON"), N("m"), Tok("LEFT_PAREN"), N("x"),
        Tok("RIGHT_PAREN")>> }

\* return { x }   /   return { x + 1 }   /   return { x = 1 }   /   return { [ 1 ] = 2 }
FieldPositionalName == <<Tok("RETURN"), Tok("LEFT_BRACE"), N("x"), Tok("RIGHT_BRACE")>>
FieldPositionalSum ==
    <<Tok("RETURN"), Tok("LEFT_BRACE"), N("x"), Tok("ADD"), Num(1), Tok("RIGHT_BRACE")>>
FieldNamed ==
    <<Tok("RETURN"), Tok("LEFT_BRACE"), N("x"), Tok("ASSIGN"), Num(1), Tok("RIGHT_BRACE")>>
FieldIndexed ==
    <<Tok("RETURN"), Tok("LEFT_BRACE"), Tok("LEFT_BRACKET"), Num(1), Tok("RIGHT_BRACKET"),
      Tok("ASSIGN"), Num(2), Tok("RIGHT_BRACE")>>

\* do end ; while x do end ; return 2 do end   /   do end ; ; do end   /
\* do end break return 1
ChunkOrderSample ==
    <<Tok("DO"), Tok("END"), Tok("SEMICOLON"), Tok("WHILE"), N("x"), Tok("DO"), Tok("END"),
      Tok("SEMICOLON"), Tok("RETURN"), Num(2), Tok("DO"), Tok("END")>>
ChunkTwoSemicolons == <<Tok("DO"), Tok("END"), Tok("SEMICOLON"), Tok("SEMICOLON"), Tok("DO"), Tok("END")>>
ChunkBreakSample == <<Tok("DO"), Tok("END"), Tok("BREAK"), Tok("RETURN"), Num(1)>>
ChunkSamples == {ChunkOrderSample, ChunkTwoSemicolons, ChunkBreakSample}

\* function f ( names , ... ) end   /   function f ( a , b ) end
VariadicSample(names) ==
    <<Tok("FUNCTION"), N("f"), Tok("LEFT_PAREN")>> \o names
        \o <<Tok("COMMA"), Tok("DOTS"), Tok("RIGHT_PAREN"), Tok("END")>>
VariadicOne == VariadicSample(<<N("a")>>)
VariadicTwo == VariadicSample(<<N("a"), Tok("COMMA"), N("b")>>)
TwoParameters ==
    <<Tok("FUNCTION"), N("f"), Tok("LEFT_PAREN"), N("a"), Tok("COMMA"), N("b"),
      Tok("RIGHT_PAREN"), Tok("END")>>
ParameterSamples == {VariadicOne, VariadicTwo, TwoParameters}

StatementSamples ==
    { TableTrailing("COMMA"), TableTrailing("SEMICOLON"), TableTwoFields, IfSample,
      ForGenericTwo, ForGenericOne, ForNumericSample, RepeatSample, RepeatEndSample,
      FunctionSample, DoFunctionSample, FieldPositionalName, FieldPositionalSum,
      FieldNamed, FieldIndexed }
    \cup SuffixSamples \cup ChunkSamples \cup ParameterSamples

TokenSeqs == SeqsUpTo(TokenAlphabet, MaxTokens) \cup SampleTokens \cup StatementSamples

(***************************************************************************)
(* Specifications.  Lexer::new and Parser::new are the two entry points:   *)
(* LexSpec runs tokenize on a source text, ParserSpec runs parse on a      *)
(* token vector, Spec runs either.                                         *)
(***************************************************************************)
LexIdle == /\ lexer = Lexer_new(<<>>) /\ tokens = <<>> /\ lexPc = "idle"
           /\ lexResult = None /\ lexLog = <<>>

ParserIdle == /\ parser = Parser_new(<<>>) /\ statements = <<>> /\ last = None
              /\ parsePc = "idle" /\ tree = None

LexInit ==
    /\ lexer \in {Lexer_new(text) : text \in Sources}
    /\ tokens = <<>>
    /\ lexPc = "scan"
    /\ lexResult = None
    /\ lexLog = <<>>
    /\ ParserIdle

ParserInit ==
    /\ parser \in {Parser_new(toks) : toks \in TokenSeqs}
    /\ statements = <<>>
    /\ last = None
    /\ parsePc = "stat"
    /\ tree = None
    /\ LexIdle

Init == LexInit \/ ParserInit

Next == Tokenize \/ Parse

Spec == Init /\ [][Next]_vars

LexSpec == LexInit /\ [][Tokenize]_vars

ParserSpec == ParserInit /\ [][Parse]_vars

(***************************************************************************)
(* Properties                                                              *)
(***************************************************************************)

\* C1: for every source text Lexer.tokenize runs to completion and returns a
\* token list or failure; it never panics.
C1_TokenizeNeverPanics == lexPc # "panic"

\* C2: for every token sequence Parser.parse terminates and returns: no call
\* among exp, prefixexp, var and functioncall recurs without consuming a token.
C2_ParseReturns == parsePc # "overflow"

\* tokens that can begin a statement or a last statement of the grammar
StatementFirst ==
    {"NAME", "LEFT_PAREN", "DO", "WHILE", "REPEAT", "IF", "FOR", "FUNCTION", "LOCAL",
     "RETURN", "BREAK"}

\* token sequences that are certainly no derivation of chunk: a first token
\* that begins no statement, or a `for` that is not followed by a name
NotAChunk(toks) ==
    /\ Len(toks) > 0
    /\ \/ toks[1].k \notin StatementFirst
       \/ toks[1].k = "FOR" /\ (Len(toks) = 1 \/ toks[2].k # "NAME")

\* C3: for a token sequence that is no derivation of chunk, parse records a
\* syntactic diagnostic (errored is true) and returns no tree.
C3_IllFormedRejected ==
    (parsePc = "done" /\ NotAChunk(parser.tokens)) => (parser.errored /\ tree = None)

\* C4: when tokenize returns it has scanned the whole tape and returns the
\* token list iff no lexical diagnostic was printed during the scan; when
\* parse returns it returns a tree iff no syntactic diagnostic was printed.
C4_SuccessIffNoDiagnostic ==
    /\ lexPc = "done" =>
          /\ lexer.cursor >= ByteLen(lexer.tape)
          /\ (lexResult # None) <=> (lexLog = <<>>)
          /\ lexResult # None => lexResult = Some(tokens)
    /\ parsePc = "done" =>
          /\ (tree # None) <=> (parser.log = <<>>)
          /\ tree # None => tree = Some(Chunk(statements, last))

\* tokenize has reported failure after scanning to the end, with two diagnostics
C4_Witness ==
    /\ lexPc = "done"
    /\ lexResult = None
    /\ Len(lexLog) >= 2
    /\ lexer.cursor >= ByteLen(lexer.tape)

\* C5: whenever parse returns a tree the cursor equals the number of tokens.
C5_TreeImpliesDrained ==
    (parsePc = "done" /\ tree # None) => parser.cursor = Len(parser.tokens)

\* the trees the expression methods build for operands and operators
Leaf(t) == Expression(Token(t))
Bin(l, op, r) == Expression(BinaryOp(l, Token(Tok(op)), r))
Un(u, r) == Expression(UnaryOp(Token(Tok(u)), r))

\* the chunk of a program that is one `return e`
ReturnOf(e) == Some(Chunk(<<>>, Some(LastStatement(ExpressionList(<<>>, Expression(e))))))

\* C6: x = 1 + 2 * 3 parses, with no diagnostic, to a chunk with exactly one
\* assignment statement with target x and value 1 + (2 * 3).
C6_AssignmentParsed ==
    parser.tokens = AssignSample =>
        /\ parsePc # "overflow"
        /\ parsePc = "done" =>
              /\ parser.log = <<>>
              /\ tree = Some(Chunk(
                     <<Statement(LValueAssign(
                           VariableList(Variable(Name(<<"x">>)), <<>>),
                           ExpressionList(<<>>, Expression(
                               Bin(Leaf(Num(1)), "ADD",
                                   Bin(Leaf(Num(2)), "MULTIPLY", Leaf(Num(3))))))))>>,
                     None))

\* C7: a lone `return`, and a `return` directly before `end`, parse with no
\* diagnostic to a last statement Return(None).
C7_BareReturnAccepted ==
    /\ parser.tokens = <<Tok("RETURN")>> =>
          /\ parsePc # "overflow"
          /\ parsePc = "done" =>
                tree = Some(Chunk(<<>>, Some(LastStatement(Token(Tok("RETURN"))))))
    /\ parser.tokens = <<Tok("DO"), Tok("RETURN"), Tok("END")>> =>
          /\ parsePc # "overflow"
          /\ parsePc = "done" =>
                tree = Some(Chunk(
                    <<Statement(Do(Block(Chunk(
                          <<>>, Some(LastStatement(Token(Tok("RETURN"))))))))>>, None))

\* the precedence table: level of a binary operator, and the levels that
\* group to the right
PrecedenceLevel(op) ==
    CASE op = "OR" -> 1
      [] op = "AND" -> 2
      [] op \in {"GREATER_THAN", "LESS_THAN", "LESS_EQUAL", "GREATER_EQUAL", "NEQ", "EQ"} -> 3
      [] op = "CONCAT" -> 4
      [] op \in {"ADD", "SUBTRACT"} -> 5
      [] op \in {"MULTIPLY", "DIVIDE", "MODULO"} -> 6
      [] op = "XOR" -> 8

RightAssociative(op) == op \in {"CONCAT", "XOR"}

GroupRight(op1, op2) == Bin(Leaf(N("a")), op1, Bin(Leaf(N("b")), op2, Leaf(N("c"))))
GroupLeft(op1, op2) == Bin(Bin(Leaf(N("a")), op1, Leaf(N("b"))), op2, Leaf(N("c")))

\* parse has returned exactly the tree of `return e`, no diagnostic, all consumed
ParsedReturn(e) ==
    /\ parsePc # "overflow"
    /\ parsePc = "done" =>
          /\ tree = ReturnOf(e)
          /\ parser.log = <<>>
          /\ parser.cursor = Len(parser.tokens)

\* C8: of two binary operators of different precedence levels the one of the
\* higher level binds tighter, and unary minus binds tighter than every
\* binary operator except ^; no diagnostic, every token consumed.
C8_PrecedenceRespected ==
    /\ \A op1 \in BinaryOps, op2 \in BinaryOps :
          (PrecedenceLevel(op1) # PrecedenceLevel(op2) /\ parser.tokens = TwoOps(op1, op2)) =>
              ParsedReturn(IF PrecedenceLevel(op1) < PrecedenceLevel(op2)
                           THEN GroupRight(op1, op2) ELSE GroupLeft(op1, op2))
    /\ \A op \in BinaryOps :
          parser.tokens = UnaryThenBinary("SUBTRACT", op) =>
              ParsedReturn(IF op = "XOR"
                           THEN Un("SUBTRACT", Bin(Leaf(N("a")), "XOR", Leaf(N("b"))))
                           ELSE Bin(Un("SUBTRACT", Leaf(N("a"))), op, Leaf(N("b"))))

\* parse has returned the tree of `return a or b and c`
C8_Witness ==
    /\ parsePc = "done"
    /\ parser.tokens = TwoOps("OR", "AND")
    /\ tree = ReturnOf(GroupRight("OR", "AND"))

\* C9: a chain of two operators of the same level is parsed completely, to
\* the right for .. and ^ and to the left for every other level.
C9_ChainsAssociate ==
    \A op1 \in BinaryOps, op2 \in BinaryOps :
        (PrecedenceLevel(op1) = PrecedenceLevel(op2) /\ parser.tokens = TwoOps(op1, op2)) =>
            ParsedReturn(IF RightAssociative(op1)
                         THEN GroupRight(op1, op2) ELSE GroupLeft(op1, op2))

\* C10: for the text "unterminated tokenize prints an unclosed string error
\* with line 1 and column 1 and reports failure.
C10_UnclosedStringReported ==
    lexer.tape = Unterminated =>
        /\ lexPc # "panic"
        /\ lexPc = "done" =>
              /\ lexResult = None
              /\ \E i \in 1..Len(lexLog) :
                    lexLog[i] = [msg |-> "unclosed string", column |-> 1, line |-> 1]

\* the expression node of one token, as exp returns it, and the block `return n`
ExpOf(t) == Expression(Leaf(t))
ReturnBlock(n) ==
    Block(Chunk(<<>>, Some(LastStatement(ExpressionList(<<>>, ExpOf(Num(n)))))))

\* the table { 1 sep }: one positional field and the trailing separator
TableWithTrailing(sep) ==
    TableConstructor(Some(FieldList(Field(ExpOf(Num(1))), <<>>,
                                    Some(Fieldsep(Token(Tok(sep)))))))

\* C11: a table constructor accepts a trailing `,` or `;` directly before
\* `}`: return { 1 sep } parses, with no diagnostic and every token consumed,
\* to the table with the field 1 and the trailing separator sep.
C11_TrailingSeparatorAccepted ==
    \A sep \in {"COMMA", "SEMICOLON"} :
        parser.tokens = TableTrailing(sep) => ParsedReturn(TableWithTrailing(sep))

\* C12: if a then return 1 elseif b then return 2 else return 3 end parses,
\* with no diagnostic and every token consumed, to one If node with condition
\* a, a then-block returning 1, one elseif pair (b, block returning 2) and an
\* else block returning 3.
C12_IfParsed ==
    parser.tokens = IfSample =>
        /\ parsePc # "overflow"
        /\ parsePc = "done" =>
              /\ tree = Some(Chunk(
                     <<Statement(If(ExpOf(N("a")), ReturnBlock(1),
                                    <<<<ExpOf(N("b")), ReturnBlock(2)>>>>,
                                    Some(ReturnBlock(3))))>>,
                     None))
              /\ parser.log = <<>>
              /\ parser.cursor = Len(parser.tokens)

\* parse has returned a tree for the if statement, all fourteen tokens consumed
C12_Witness ==
    /\ parsePc = "done"
    /\ parser.tokens = IfSample
    /\ tree # None
    /\ parser.cursor = Len(IfSample)

\* the empty block, and parse having returned exactly the chunk of the one
\* statement st: no diagnostic, every token consumed
EmptyBlock == Block(Chunk(<<>>, None))
ParsedStatement(st) ==
    /\ parsePc # "overflow"
    /\ parsePc = "done" =>
          /\ tree = Some(Chunk(<<Statement(st)>>, None))
          /\ parser.log = <<>>
          /\ parser.cursor = Len(parser.tokens)

\* C13: after `for` and a first name, `=` selects the numeric for and
\* anything else the generic for: for i = 1, 2 do end parses to a ForNumeric
\* node, for k, v in t do end and for k in t do end to ForGeneric nodes, each
\* with no diagnostic.
C13_ForDisambiguated ==
    /\ parser.tokens = ForNumericSample =>
          ParsedStatement(ForNumeric(Name(<<"i">>), ExpOf(Num(1)), ExpOf(Num(2)), None,
                                     EmptyBlock))
    /\ parser.tokens = ForGenericTwo =>
          ParsedStatement(ForGeneric(NameList(Name(<<"k">>), <<Name(<<"v">>)>>),
                                     ExpressionList(<<>>, ExpOf(N("t"))), EmptyBlock))
    /\ parser.tokens = ForGenericOne =>
          ParsedStatement(ForGeneric(NameList(Name(<<"k">>), <<>>),
                                     ExpressionList(<<>>, ExpOf(N("t"))), EmptyBlock))

\* C14: repeat until x parses to a Repeat node with no diagnostic, and in
\* repeat until x end the repeat statement does not consume the `end`.
C14_RepeatWithoutEnd ==
    /\ parser.tokens = RepeatSample =>
          ParsedStatement(Repeat(EmptyBlock, ExpOf(N("x"))))
    /\ (parser.tokens = RepeatEndSample /\ Len(statements) = 1) =>
          parser.cursor <= Len(RepeatSample)

\* the statement function f() end
FunctionF ==
    FunctionStatement(FunctionName(Name(<<"f">>), <<>>, None), FunctionBody(None, EmptyBlock))

\* C15: funcbody consumes the `end` of its block: function f() end parses
\* with every token consumed, and in do function f() end end the first `end`
\* closes the function and the second the do block.
C15_FuncbodyConsumesEnd ==
    /\ parser.tokens = FunctionSample => ParsedStatement(FunctionF)
    /\ parser.tokens = DoFunctionSample =>
          ParsedStatement(Do(Block(Chunk(<<Statement(FunctionF)>>, None))))

\* C16: a.b, a[1], f(x) and o:m(x) after `return` are each consumed entirely
\* into the one expression of the return: no diagnostic, every token consumed.
C16_SuffixesConsumed ==
    parser.tokens \in SuffixSamples =>
        /\ parsePc # "overflow"
        /\ parsePc = "done" =>
              /\ parser.log = <<>>
              /\ parser.cursor = Len(parser.tokens)
              /\ \E e \in {tree[1][3][1][2][3]} : tree = ReturnOf(e[2])

\* the table with the single field f
TableOf(f) == TableConstructor(Some(FieldList(Field(f), <<>>, None)))

\* C17: a field is classified by lookahead: [1] = 2 is an indexed field,
\* x = 1 a named field, and x or x + 1 (a Name not followed by `=`) a
\* positional expression field, each with no diagnostic.
C17_FieldByLookahead ==
    /\ parser.tokens = FieldIndexed =>
          ParsedReturn(TableOf(FieldA(ExpOf(Num(1)), ExpOf(Num(2)))))
    /\ parser.tokens = FieldNamed =>
          ParsedReturn(TableOf(FieldB(Name(<<"x">>), ExpOf(Num(1)))))
    /\ parser.tokens = FieldPositionalName =>
          ParsedReturn(TableOf(ExpOf(N("x"))))
    /\ parser.tokens = FieldPositionalSum =>
          ParsedReturn(TableOf(Expression(Bin(Leaf(N("x")), "ADD", Leaf(Num(1))))))

\* tokenize on the given text returns exactly the tokens toks, with no diagnostic
LexesTo(text, toks) ==
    lexer.tape = text =>
        /\ lexPc # "panic"
        /\ lexPc = "done" => (lexLog = <<>> /\ lexResult = Some(toks))

\* C18: a numeric literal never includes a leading sign: no NUMBER token is
\* negative, -1 lexes to SUBTRACT NUMBER(1), a-1 to NAME(a) SUBTRACT NUMBER(1)
\* and 1-2 to NUMBER(1) SUBTRACT NUMBER(2), each with no lexical error.
C18_NoSignedNumeral ==
    /\ \A i \in 1..Len(tokens) : tokens[i].k = "NUMBER" => tokens[i].n >= 0
    /\ LexesTo(<<"-", "1">>, <<Tok("SUBTRACT"), Token_NUMBER(1, 0)>>)
    /\ LexesTo(<<"a", "-", "1">>, <<Token_NAME(<<"a">>), Tok("SUBTRACT"), Token_NUMBER(1, 0)>>)
    /\ LexesTo(<<"1", "-", "2">>, <<Token_NUMBER(1, 0), Tok("SUBTRACT"), Token_NUMBER(2, 0)>>)

\* C19: ... is DOTS, .. is CONCAT, and a `.` followed by a non-digit is the
\* DOT token with no lexical error: t.e lexes to NAME(t) DOT NAME(e), with or
\* without a blank after it, and a `.` before an underscore or a blank to DOT.
C19_DotsLongestMatch ==
    /\ LexesTo(<<".", ".", ".">>, <<Tok("DOTS")>>)
    /\ LexesTo(<<".", ".">>, <<Tok("CONCAT")>>)
    /\ LexesTo(<<"t", ".", "e">>, <<Token_NAME(<<"t">>), Tok("DOT"), Token_NAME(<<"e">>)>>)
    /\ LexesTo(<<"t", ".", "e", " ">>, <<Token_NAME(<<"t">>), Tok("DOT"), Token_NAME(<<"e">>)>>)
    /\ LexesTo(<<".", "_", " ">>, <<Tok("DOT"), Token_NAME(<<"_">>)>>)
    /\ LexesTo(<<".", " ">>, <<Tok("DOT")>>)

\* C20: an identifier run of letters, digits and `_` is one token: a_b before
\* a blank lexes to the single token NAME(a_b), _a1 to NAME(_a1), ends to
\* NAME(ends), and end to the keyword END.
C20_IdentifierWholeRun ==
    /\ LexesTo(<<"a", "_", "b", " ">>, <<Token_NAME(<<"a", "_", "b">>)>>)
    /\ LexesTo(<<"_", "a", "1", " ">>, <<Token_NAME(<<"_", "a", "1">>)>>)
    /\ LexesTo(<<"e", "n", "d", "s", " ">>, <<Token_NAME(<<"e", "n", "d", "s">>)>>)
    /\ LexesTo(<<"e", "n", "d", " ">>, <<Tok("END")>>)

\* C21: a short string ends only at the unescaped quote that opened it: "it's"
\* lexes to the single token STRING(it's), 'a"b' to STRING(a"b), "a\"b" to
\* one STRING token holding the text between the outer quotes, and "ab" to
\* STRING(ab).
C21_MatchingQuoteTerminates ==
    /\ LexesTo(ItsText, <<Token_STRING(<<"i", "t", "'", "s">>)>>)
    /\ LexesTo(Spaced(ItsText), <<Token_STRING(<<"i", "t", "'", "s">>)>>)
    /\ LexesTo(Spaced(OtherQuoteText), <<Token_STRING(<<"a", "\"", "b">>)>>)
    /\ LexesTo(Spaced(EscapedQuoteText), <<Token_STRING(<<"a", "\\", "\"", "b">>)>>)
    /\ LexesTo(Spaced(PlainQuoteText), <<Token_STRING(<<"a", "b">>)>>)

\* C22: 0x1F and 0X1F followed by a blank each lex to the one token
\* NUMBER(31), and the prefix 0x followed by no hexadecimal digit is a
\* lexical error: tokenize reports failure.
C22_HexNumeral ==
    /\ LexesTo(<<"0", "x", "1", "F", " ">>, <<Token_NUMBER(31, 0)>>)
    /\ LexesTo(<<"0", "x", "1", "f", " ">>, <<Token_NUMBER(31, 0)>>)
    /\ LexesTo(<<"0", "X", "1", "F", " ">>, <<Token_NUMBER(31, 0)>>)
    /\ lexer.tape = <<"0", "x", " ">> =>
          /\ lexPc # "panic"
          /\ lexPc = "done" => (lexResult = None /\ lexLog # <<>>)

\* the line and the 1-based column of the character with index c of the tape
NewlinesUpTo(tape, c) == {i \in 1..Len(tape) : i <= c + 1 /\ tape[i] = "\n"}
TrueLine(tape, c) == 1 + Cardinality(NewlinesUpTo(tape, c))
TrueColumn(tape, c) ==
    IF NewlinesUpTo(tape, c) = {} THEN c + 1
    ELSE (c + 1) - (CHOOSE i \in NewlinesUpTo(tape, c) : \A j \in NewlinesUpTo(tape, c) : j <= i)

\* C23: between two iterations of the scanning loop the line is 1 plus the
\* number of newlines up to the cursor and the column the 1-based offset in
\* that line, and every diagnostic recorded after a multi-line long string or
\* long comment carries the true line 2 and column 4 of the offending `~`.
C23_PositionTracked ==
    /\ (lexPc = "scan" /\ lexer.cursor < Len(lexer.tape)) =>
          /\ lexer.line = TrueLine(lexer.tape, lexer.cursor)
          /\ lexer.column = TrueColumn(lexer.tape, lexer.cursor)
    /\ lexer.tape \in { <<"[", "[", "a", "\n", "]", "]", " ", "~">>,
                        <<"-", "-", "[", "[", "a", "\n", "]", "]", " ", "~">>,
                        <<"-", "-", "a", "\n", " ", " ", " ", "~">> } =>
          \A i \in 1..Len(lexLog) : lexLog[i].line = 2 /\ lexLog[i].column = 4

\* the token kinds handed to accept and expect at a state: the alphabet and
\* every token of the vector
KindsAt(p) == TokenAlphabet \cup {p.tokens[i] : i \in 1..Len(p.tokens)}
Matches(p, t) == p.cursor < Len(p.tokens) /\ p.tokens[p.cursor + 1] = t
Consumed(p) == [p EXCEPT !.cursor = p.cursor + 1]

\* C24: at every state of the parser and for every token kind, accept returns
\* true iff the cursor is not at the end and the current token equals the
\* kind, then advancing the cursor by exactly one, and otherwise changes
\* nothing; expect consumes on a match exactly like accept, and on a mismatch
\* sets the error flag, records one diagnostic and leaves the cursor where it
\* was; neither changes the token vector.
C24_AcceptExpect ==
    \A t \in KindsAt(parser) :
        /\ accept(parser, t).ok = Matches(parser, t)
        /\ accept(parser, t).p = IF Matches(parser, t) THEN Consumed(parser) ELSE parser
        /\ IF Matches(parser, t)
           THEN expect(parser, t) = Consumed(parser)
           ELSE /\ expect(parser, t).errored
                /\ expect(parser, t).cursor = parser.cursor
                /\ expect(parser, t).tokens = parser.tokens
                /\ Len(expect(parser, t).log) = Len(parser.log) + 1
C24_Witness ==
    /\ parser.tokens = RepeatSample
    /\ parsePc = "done"
    /\ parser.cursor = Len(RepeatSample)
    /\ parser.errored
    /\ parser.log = <<[expected |-> "END", found |-> UNDEFINED]>>

\* the chunk of do end ; while x do end ; return 2
OrderedChunk ==
    Chunk(<<Statement(Do(EmptyBlock)), Statement(While(ExpOf(N("x")), EmptyBlock))>>,
          Some(LastStatement(ExpressionList(<<>>, ExpOf(Num(2))))))

\* C25: chunk reads statements, then at most one last statement, and is
\* done.  While statements are read no last statement is stored; each step
\* of the loop appends one statement behind the earlier ones and consumes at
\* least one token; once the last statement has been read, cursor, statements
\* and last statement no longer change.  do end ; while x do end ; return 2
\* do end yields the two statements in that order and return 2, and stops
\* before the second do; do end ; ; do end stops at the second semicolon;
\* do end break return 1 stops after break.
C25_ChunkStateMachine ==
    /\ [](/\ parsePc = "stat" => last = None
          /\ (parser.tokens = ChunkOrderSample /\ parsePc = "done") =>
                (tree = Some(OrderedChunk) /\ parser.cursor = 10)
          /\ (parser.tokens = ChunkTwoSemicolons /\ parsePc = "done") =>
                (tree = Some(Chunk(<<Statement(Do(EmptyBlock))>>, None)) /\ parser.cursor = 3)
          /\ (parser.tokens = ChunkBreakSample /\ parsePc = "done") =>
                /\ tree = Some(Chunk(<<Statement(Do(EmptyBlock))>>,
                                     Some(LastStatement(Token(Tok("BREAK"))))))
                /\ parser.cursor = 3)
    /\ [][/\ (parsePc = "stat" /\ parsePc' = "stat") =>
                /\ Len(statements') = Len(statements) + 1
                /\ SubSeq(statements', 1, Len(statements)) = statements
                /\ parser'.cursor > parser.cursor
          /\ (parsePc = "stat" /\ parsePc' = "chunked") => statements' = statements
          /\ parsePc \in {"chunked", "done"} =>
                /\ UNCHANGED <<parser, statements, last>>
                /\ parsePc' = "done"]_vars
C25_Witness ==
    /\ parser.tokens = ChunkOrderSample
    /\ parsePc = "done"
    /\ tree = Some(OrderedChunk)
    /\ parser.cursor = 10

\* the token of each final lexeme
FinalToken(text) ==
    CASE text = <<"a", "b", "c">> -> Token_NAME(<<"a", "b", "c">>)
      [] text = <<"e", "n", "d">> -> Tok("END")
      [] text = <<"1", "2", "3">> -> Token_NUMBER(123, 0)
      [] text = <<"0", "x", "1", "F">> -> Token_NUMBER(31, 0)

\* C26: the end of the input ends a lexeme as a blank does: abc lexes to
\* NAME(abc), end to END, 123 to NUMBER(123) and 0x1F to NUMBER(31), each
\* whether the text stops there or a blank follows.
C26_EndOfInputEndsLexeme ==
    \A text \in FinalLexemes :
        /\ LexesTo(text, <<FinalToken(text)>>)
        /\ LexesTo(text \o <<" ">>, <<FinalToken(text)>>)

\* the statement function f(<parameters>) end, and its having been read with
\* no diagnostic and the cursor on the final `end` or past it
FunctionWith(parameter_list) ==
    Statement(FunctionStatement(FunctionName(Name(<<"f">>), <<>>, None),
                                FunctionBody(Some(parameter_list), EmptyBlock)))
ParsedFunction(parameter_list) ==
    /\ parsePc # "overflow"
    /\ parsePc = "done" =>
          /\ parser.log = <<>>
          /\ statements = <<FunctionWith(parameter_list)>>
          /\ parser.cursor >= Len(parser.tokens) - 1

\* C27: a name list followed by `, ...` is a variadic parameter list: for
\* function f(a, ...) end and function f(a, b, ...) end parlist1 yields the
\* names in order with variadic = true, consumes the `...` and records no
\* diagnostic.
C27_VariadicAfterNames ==
    /\ parser.tokens = VariadicOne =>
          ParsedFunction(ParameterListA(NameList(Name(<<"a">>), <<>>), TRUE))
    /\ parser.tokens = VariadicTwo =>
          ParsedFunction(ParameterListA(NameList(Name(<<"a">>), <<Name(<<"b">>)>>), TRUE))

====
